---- MODULE Spec2Model ----
(***************************************************************************)
(* Model of game.js: a generalized rock-paper-scissors round with an HMAC  *)
(* commitment to the computer's move.                                      *)
(*                                                                         *)
(* Strings that the program takes apart (stdin data, hex digests) are      *)
(* sequences of one-character strings; move names are TLA+ strings whose   *)
(* UTF-8 bytes are given by Utf8.                                          *)
(***************************************************************************)
EXTENDS Integers, Sequences, FiniteSets

VARIABLES
    args,          \* process.argv.slice(2)
    pc,            \* "main" | "waiting" | "idle" | "exited" | "threw" | "new" | "built"
    exitCode,      \* argument of process.exit, -1 while the process runs
    moves,         \* this.moves of the game and of its GameRules
    rulesMatrix,   \* this.rulesMatrix
    key,           \* const key of start()
    computerMove,  \* const computerMove of start(), <<m>> once chosen
    hmac,          \* const hmac of start()
    listeners,     \* number of pending stdin.once('data') listeners
    io,            \* the terminal transcript: lines written, data events handled or lost
    call           \* the last determineResult call: <<playerMove, computerMove, result>>

vars == <<args, pc, exitCode, moves, rulesMatrix, key, computerMove, hmac, listeners, io, call>>

-----------------------------------------------------------------------------
(* Bounds *)

\* longest argument list drawn for process.argv
MaxArgs == 5
\* data events one run handles
MaxInputs == 2
\* longest canonical move list the rules are built over on their own
MaxMoves == 7

-----------------------------------------------------------------------------
(* Input domains *)

\* move names the command line is drawn from
Names == {"rock", "paper", "scissors", "lizard", "spock"}

\* a fixed order of names, for the canonical lists
MoveNames == <<"rock", "paper", "scissors", "lizard", "spock", "fire", "water", "air">>

\* a string that is never configured as a move
Stranger == "well"

AllNames == {MoveNames[i] : i \in 1..Len(MoveNames)} \cup {Stranger}

ArgLists == UNION {[1..k -> Names] : k \in 0..MaxArgs}

Utf8(m) ==
    CASE m = "rock"     -> <<114, 111, 99, 107>>
      [] m = "paper"    -> <<112, 97, 112, 101, 114>>
      [] m = "scissors" -> <<115, 99, 105, 115, 115, 111, 114, 115>>
      [] m = "lizard"   -> <<108, 105, 122, 97, 114, 100>>
      [] m = "spock"    -> <<115, 112, 111, 99, 107>>
      [] m = "fire"     -> <<102, 105, 114, 101>>
      [] m = "water"    -> <<119, 97, 116, 101, 114>>
      [] m = "air"      -> <<97, 105, 114>>
      [] OTHER          -> <<119, 101, 108, 108>>

-----------------------------------------------------------------------------
(* KeyGenerator, HMACCalculator *)

\* crypto.randomBytes: the keys a run may draw (two bytes stand for the 32)
generateKey == {<<10, 255>>, <<0, 171>>, <<255, 16>>}

RECURSIVE BitXor(_, _)
BitXor(a, b) ==
    IF a = 0 THEN b
    ELSE IF b = 0 THEN a
    ELSE (((a % 2) + (b % 2)) % 2) + 2 * BitXor(a \div 2, b \div 2)

HexDigit(d) == <<"0", "1", "2", "3", "4", "5", "6", "7", "8", "9", "a", "b", "c", "d", "e", "f">>[d + 1]

RECURSIVE toHex(_)
\* Buffer.toString('hex') / digest('hex'): two lowercase digits per byte
toHex(bytes) ==
    IF bytes = <<>> THEN <<>>
    ELSE <<HexDigit(Head(bytes) \div 16), HexDigit(Head(bytes) % 16)>> \o toHex(Tail(bytes))

RECURSIVE Absorb(_, _)
\* the hash under the HMAC, cut down to a 16-bit state
Absorb(h, bytes) ==
    IF bytes = <<>> THEN h
    ELSE Absorb((h * 33 + Head(bytes)) % 65536, Tail(bytes))

Hash(bytes) ==
    LET h == Absorb(5381, bytes) IN <<h \div 256, h % 256>>

\* the key zero-padded to the hash block and xored with a pad byte
PadKey(k, pad) ==
    [i \in 1..4 |-> BitXor(IF i <= Len(k) THEN k[i] ELSE 0, pad)]

calculateHMAC(k, message) ==
    toHex(Hash(PadKey(k, 92) \o Hash(PadKey(k, 54) \o Utf8(message))))

-----------------------------------------------------------------------------
(* GameRules *)

\* matrix[i][j] = v, indices from 0 as in the source
SetCell(matrix, i, j, v) == [matrix EXCEPT ![i + 1][j + 1] = v]

RECURSIVE InnerLoop(_, _, _, _)
\* for (let j = 1; j <= (n - 1) / 2; j++), the division being exact
InnerLoop(matrix, n, i, j) ==
    IF 2 * j <= n - 1
    THEN LET winIndex  == (i + j) % n
             loseIndex == (i - j + n) % n
         IN  InnerLoop(SetCell(SetCell(matrix, i, winIndex, "Win"), i, loseIndex, "Lose"),
                       n, i, j + 1)
    ELSE matrix

RECURSIVE OuterLoop(_, _, _)
\* for (let i = 0; i < n; i++)
OuterLoop(matrix, n, i) ==
    IF i < n THEN OuterLoop(InnerLoop(matrix, n, i, 1), n, i + 1) ELSE matrix

\* the loop bound written j < (n - 1) / 2: the cells at distance (n - 1) / 2 stay 'Draw'
generateRulesMatrix_ShortLoop(ms) ==
    LET n    == Len(ms)
        full == OuterLoop([i \in 1..n |-> [j \in 1..n |-> "Draw"]], n, 0)
        far(i, j) == 2 * ((j - i) % n) = n - 1 \/ 2 * ((i - j) % n) = n - 1
    IN  [i \in 1..n |-> [j \in 1..n |-> IF far(i, j) THEN "Draw" ELSE full[i][j]]]

\* loseIndex written (i - j) % n: a negative index sets no cell, which stays 'Draw'
generateRulesMatrix_NoWrap(ms) ==
    LET n    == Len(ms)
        full == OuterLoop([i \in 1..n |-> [j \in 1..n |-> "Draw"]], n, 0)
    IN  [i \in 1..n |-> [j \in 1..n |->
            IF full[i][j] = "Lose" /\ j > i THEN "Draw" ELSE full[i][j]]]

generateRulesMatrix(ms) ==
    LET n == Len(ms)
    IN  OuterLoop([i \in 1..n |-> [j \in 1..n |-> "Draw"]], n, 0)

RECURSIVE IndexFrom(_, _, _)
IndexFrom(ms, m, i) ==
    IF i >= Len(ms) THEN -1
    ELSE IF ms[i + 1] = m THEN i
    ELSE IndexFrom(ms, m, i + 1)

\* Array.prototype.indexOf: the first index from 0, or -1
indexOf(ms, m) == IndexFrom(ms, m, 0)

\* the error determineResult throws, as a result
Thrown == "Error: Invalid move selected. Please choose a valid move."

\* the lookup written rulesMatrix[computerIndex][playerIndex]
determineResult_Transposed(ms, matrix, playerMove, cMove) ==
    LET playerIndex   == indexOf(ms, playerMove)
        computerIndex == indexOf(ms, cMove)
    IN  IF playerIndex = -1 \/ computerIndex = -1
        THEN Thrown
        ELSE matrix[computerIndex + 1][playerIndex + 1]

\* the guard written with && : one unknown move reads outside the table
determineResult_BothUnknown(ms, matrix, playerMove, cMove) ==
    LET playerIndex   == indexOf(ms, playerMove)
        computerIndex == indexOf(ms, cMove)
    IN  IF playerIndex = -1 /\ computerIndex = -1
        THEN Thrown
        ELSE IF playerIndex = -1 \/ computerIndex = -1
        THEN "undefined"
        ELSE matrix[playerIndex + 1][computerIndex + 1]

determineResult(ms, matrix, playerMove, cMove) ==
    LET playerIndex   == indexOf(ms, playerMove)
        computerIndex == indexOf(ms, cMove)
    IN  IF playerIndex = -1 \/ computerIndex = -1
        THEN Thrown
        ELSE matrix[playerIndex + 1][computerIndex + 1]

-----------------------------------------------------------------------------
(* Terminal transcript *)

\* one entry of io: a line written (kind names the line, text its variable part)
\* or a data event handled (kind "data")
Line(kind, text) == [kind |-> kind, text |-> text]

RECURSIVE ToString(_)
\* `${index + 1}`: the decimal digits of a natural number
ToString(k) ==
    IF k < 10 THEN <<HexDigit(k)>> ELSE ToString(k \div 10) \o <<HexDigit(k % 10)>>

displayMenu(ms) ==
    <<Line("menu", <<"Available moves:">>)>>
    \o [i \in 1..Len(ms) |-> Line("menuItem", ToString(i) \o <<" - ", ms[i]>>)]
    \o <<Line("menu", <<"0 - Exit">>), Line("menu", <<"? - help">>)>>

RECURSIVE HelpRows(_, _, _)
\* for (let i = 0; i < n; i++): the row of moves[i], then a border
HelpRows(ms, matrix, i) ==
    IF i < Len(ms)
    THEN <<Line("helpRow", <<ms[i + 1]>> \o matrix[i + 1]), Line("border", <<>>)>>
         \o HelpRows(ms, matrix, i + 1)
    ELSE <<>>

\* a help screen that also shows the computer's move
displayHelp_Leaky(ms, matrix) ==
    <<Line("border", <<>>),
      Line("helpHeader", <<"v PC\\User >">> \o ms),
      Line("border", <<>>)>>
    \o HelpRows(ms, matrix, 0)
    \o <<Line("Computer move", computerMove)>>

\* the lines of the help table; the padding of the cells is layout and left out
displayHelp(ms, matrix) ==
    <<Line("border", <<>>),
      Line("helpHeader", <<"v PC\\User >">> \o ms),
      Line("border", <<>>)>>
    \o HelpRows(ms, matrix, 0)
    \o <<Line("helpNote", <<"Results are from your point of view. For example:">>),
         Line("helpNote", <<"If you choose Rock and the computer chooses Scissors, you Win.">>)>>

-----------------------------------------------------------------------------
(* stdin data: String.prototype.trim and parseInt *)

IsSpace(c) == c \in {" ", "\n", "\r", "\t"}

RECURSIVE TrimStart(_)
TrimStart(s) ==
    IF s # <<>> /\ IsSpace(Head(s)) THEN TrimStart(Tail(s)) ELSE s

RECURSIVE TrimEnd(_)
TrimEnd(s) ==
    IF s # <<>> /\ IsSpace(s[Len(s)]) THEN TrimEnd(SubSeq(s, 1, Len(s) - 1)) ELSE s

trim(s) == TrimEnd(TrimStart(s))

\* the value of a digit in the radix, or -1
DigitValue(c, radix) ==
    LET v == CASE c = "0" -> 0 [] c = "1" -> 1 [] c = "2" -> 2 [] c = "3" -> 3
               [] c = "4" -> 4 [] c = "5" -> 5 [] c = "6" -> 6 [] c = "7" -> 7
               [] c = "8" -> 8 [] c = "9" -> 9
               [] c \in {"a", "A"} -> 10 [] c \in {"b", "B"} -> 11
               [] c \in {"c", "C"} -> 12 [] c \in {"d", "D"} -> 13
               [] c \in {"e", "E"} -> 14 [] c \in {"f", "F"} -> 15
               [] OTHER -> -1
    IN  IF v < radix THEN v ELSE -1

RECURSIVE ParseDigits(_, _, _, _)
\* the longest prefix of digits: <<value>>, or <<>> (NaN) when there is none
ParseDigits(s, radix, acc, seen) ==
    IF s # <<>> /\ DigitValue(Head(s), radix) >= 0
    THEN ParseDigits(Tail(s), radix, acc * radix + DigitValue(Head(s), radix), TRUE)
    ELSE IF seen THEN <<acc>> ELSE <<>>

\* parseInt(string) with no radix: <<n>>, or <<>> for NaN
parseInt(str) ==
    LET s0    == TrimStart(str)
        neg   == s0 # <<>> /\ Head(s0) = "-"
        s1    == IF s0 # <<>> /\ Head(s0) \in {"+", "-"} THEN Tail(s0) ELSE s0
        hex   == Len(s1) >= 2 /\ s1[1] = "0" /\ s1[2] \in {"x", "X"}
        s2    == IF hex THEN Tail(Tail(s1)) ELSE s1
        digs  == ParseDigits(s2, IF hex THEN 16 ELSE 10, 0, FALSE)
    IN  IF digs = <<>> THEN <<>>
        ELSE IF neg THEN <<0 - digs[1]>> ELSE digs

\* the chunks a 'data' event may carry
Inputs ==
    { <<"?", "\n">>, <<"0", "\n">>, <<"1", "\n">>, <<"2", "\n">>, <<"3", "\n">>,
      <<"4", "\n">>, <<"5", "\n">>, <<"6", "\n">>, <<"1", "0", "\n">>,
      <<"x", "\n">>, <<"\n">>, <<" ", "2", " ", "\n">>, <<"3", "x", "\n">>,
      <<"-", "1", "\n">>, <<"0", "x", "2", "\n">>, <<"0", "0", "\n">>, <<"?", "?", "\n">> }

-----------------------------------------------------------------------------
(* The program: validateArguments, new RockPaperScissorsGame(args), game.start() *)

\* the check of uniqueness left out
validateArguments_NoSet(a) ==
    \/ Len(a) < 3
    \/ Len(a) % 2 = 0

\* TRUE when validateArguments prints the error and calls process.exit(1)
validateArguments(a) ==
    \/ Len(a) < 3
    \/ Len(a) % 2 = 0
    \/ Cardinality({a[i] : i \in 1..Len(a)}) # Len(a)

errorLines ==
    <<Line("error", <<"Error: Please provide an odd number of unique moves (>= 3).">>),
      Line("error", <<"Example: node game.js rock paper scissors">>)>>

\* what getUserMove writes before it registers its listener
promptLines == <<Line("prompt", <<"Enter your move: ">>)>>

\* start() that shows the menu and prompts without publishing the HMAC
startLines_NoCommit(h, ms) == displayMenu(ms) \o promptLines

\* what start() writes, in order, up to the registration of the first listener
startLines(h, ms) == <<Line("HMAC", h)>> \o displayMenu(ms) \o promptLines

RECURSIVE toHexUnpadded(_)
\* each byte as byte.toString(16): no leading zero
toHexUnpadded(bytes) ==
    IF bytes = <<>> THEN <<>>
    ELSE (IF Head(bytes) < 16 THEN <<>> ELSE <<HexDigit(Head(bytes) \div 16)>>)
         \o <<HexDigit(Head(bytes) % 16)>> \o toHexUnpadded(Tail(bytes))

\* the key printed byte by byte without padding
callback_UnpaddedKey(userMove, cMove, result, k) ==
    <<Line("Your move", <<userMove>>),
      Line("Computer move", <<cMove>>),
      Line("Result", <<result>>),
      Line("HMAC key", toHexUnpadded(k))>>

\* what the callback of start() writes for a result that was not thrown
callback(userMove, cMove, result, k) ==
    <<Line("Your move", <<userMove>>),
      Line("Computer move", <<cMove>>),
      Line("Result", <<result>>),
      Line("HMAC key", toHex(k))>>

dataEvent == <<Line("data", <<>>)>>

Reads == Cardinality({p \in DOMAIN io : io[p].kind = "data"})

Init ==
    /\ args \in ArgLists
    /\ pc = "main"
    /\ exitCode = -1
    /\ moves = <<>>
    /\ rulesMatrix = <<>>
    /\ key = <<>>
    /\ computerMove = <<>>
    /\ hmac = <<>>
    /\ listeners = 0
    /\ io = <<>>
    /\ call = <<>>

\* the top level of the script, run to the point where it waits for stdin
Main ==
    /\ pc = "main"
    /\ IF validateArguments(args)
       THEN /\ io' = io \o errorLines
            /\ pc' = "exited"
            /\ exitCode' = 1
            /\ UNCHANGED <<moves, rulesMatrix, key, computerMove, hmac, listeners>>
       ELSE \E k \in generateKey, r \in 0..(Len(args) - 1) :
            LET cMove == args[r + 1]
                h     == calculateHMAC(k, cMove)
            IN  /\ moves' = args
                /\ rulesMatrix' = generateRulesMatrix(args)
                /\ key' = k
                /\ computerMove' = <<cMove>>
                /\ hmac' = h
                /\ io' = io \o startLines(h, args)
                /\ listeners' = 1
                /\ pc' = "waiting"
                /\ UNCHANGED exitCode
    /\ UNCHANGED <<args, call>>

\* a listener is pending: a 'data' event is handled, once() taking the listener off
Waiting == pc = "waiting" /\ listeners > 0

\* within the bound on data events; the last chunk of a bounded run can only be '0'
Readable == Waiting /\ Reads < MaxInputs

\* the choice written parseInt(input), without the - 1
choiceOf_NoOffset(input) == parseInt(input)

\* the choice the listener computes from the trimmed input: <<n>> or <<>> (NaN)
choiceOf(input) ==
    LET n == parseInt(input) IN IF n = <<>> THEN <<>> ELSE <<n[1] - 1>>

\* the upper test written choice <= this.moves.length
inRange_Inclusive(choice, ms) == choice # <<>> /\ choice[1] >= 0 /\ choice[1] <= Len(ms)

inRange(choice, ms) == choice # <<>> /\ choice[1] >= 0 /\ choice[1] < Len(ms)

\* this.moves[choice]: the element, or undefined outside the array
at(ms, i) == IF i + 1 \in DOMAIN ms THEN ms[i + 1] ELSE "undefined"

\* the help shown without the recursive getUserMove(callback)
HelpOn_NoReprompt(data) ==
    /\ Waiting
    /\ trim(data) = <<"?">>
    /\ Readable
    /\ io' = io \o dataEvent \o displayHelp(moves, rulesMatrix)
    /\ listeners' = listeners - 1
    /\ UNCHANGED <<args, pc, exitCode, moves, rulesMatrix, key, computerMove, hmac, call>>

\* input === '?'
HelpOn(data) ==
    /\ Waiting
    /\ trim(data) = <<"?">>
    /\ Readable
    /\ io' = io \o dataEvent \o displayHelp(moves, rulesMatrix) \o promptLines
    /\ listeners' = (listeners - 1) + 1
    /\ UNCHANGED <<args, pc, exitCode, moves, rulesMatrix, key, computerMove, hmac, call>>

Help == \E data \in Inputs : HelpOn(data)

\* leaving that prints the key on the way out
ExitOn_Reveal(data) ==
    /\ Waiting
    /\ trim(data) = <<"0">>
    /\ io' = io \o dataEvent \o <<Line("HMAC key", toHex(key))>>
    /\ listeners' = listeners - 1
    /\ pc' = "exited"
    /\ exitCode' = 0
    /\ UNCHANGED <<args, moves, rulesMatrix, key, computerMove, hmac, call>>

\* input === '0'
ExitOn(data) ==
    /\ Waiting
    /\ trim(data) = <<"0">>
    /\ io' = io \o dataEvent
    /\ listeners' = listeners - 1
    /\ pc' = "exited"
    /\ exitCode' = 0
    /\ UNCHANGED <<args, moves, rulesMatrix, key, computerMove, hmac, call>>

Exit == \E data \in Inputs : ExitOn(data)

\* a choice in range: callback(this.moves[choice])
SelectOn(data) ==
    LET input  == trim(data)
        choice == choiceOf(input)
    IN  /\ Waiting
        /\ input # <<"?">>
        /\ input # <<"0">>
        /\ inRange(choice, moves)
        /\ Readable
        /\ LET userMove == at(moves, choice[1])
               result   == determineResult(moves, rulesMatrix, userMove, computerMove[1])
           IN  /\ call' = <<userMove, computerMove[1], result>>
               /\ IF result = Thrown
                  THEN /\ io' = io \o dataEvent \o <<Line("uncaught", <<Thrown>>)>>
                       /\ pc' = "threw"
                       /\ exitCode' = 1
                  ELSE /\ io' = io \o dataEvent
                                   \o callback(userMove, computerMove[1], result, key)
                       /\ pc' = "idle"
                       /\ UNCHANGED exitCode
        /\ listeners' = listeners - 1
        /\ UNCHANGED <<args, moves, rulesMatrix, key, computerMove, hmac>>

Select == \E data \in Inputs : SelectOn(data)

\* the new prompt made by calling this.start() again
InvalidOn_Restart(data) ==
    LET input == trim(data)
    IN  /\ Waiting
        /\ input # <<"?">>
        /\ input # <<"0">>
        /\ ~inRange(choiceOf(input), moves)
        /\ Readable
        /\ \E k \in generateKey, r \in 0..(Len(moves) - 1) :
            /\ key' = k
            /\ computerMove' = <<moves[r + 1]>>
            /\ hmac' = calculateHMAC(k, moves[r + 1])
            /\ io' = io \o dataEvent
                        \o <<Line("invalid", <<"Invalid choice. Please try again.">>)>>
                        \o startLines(calculateHMAC(k, moves[r + 1]), moves)
        /\ listeners' = (listeners - 1) + 1
        /\ UNCHANGED <<args, pc, exitCode, moves, rulesMatrix, call>>

\* anything else: 'Invalid choice. Please try again.' and a new prompt
InvalidOn(data) ==
    LET input == trim(data)
    IN  /\ Waiting
        /\ input # <<"?">>
        /\ input # <<"0">>
        /\ ~inRange(choiceOf(input), moves)
        /\ Readable
        /\ io' = io \o dataEvent
                    \o <<Line("invalid", <<"Invalid choice. Please try again.">>)>>
                    \o promptLines
        /\ listeners' = (listeners - 1) + 1
        /\ UNCHANGED <<args, pc, exitCode, moves, rulesMatrix, key, computerMove, hmac, call>>

Invalid == \E data \in Inputs : InvalidOn(data)

\* what the listener of getUserMove does with one chunk
OnData(data) == HelpOn(data) \/ ExitOn(data) \/ SelectOn(data) \/ InvalidOn(data)

\* data events emitted while no listener is registered
Unheard == Cardinality({p \in DOMAIN io : io[p].kind = "unheard"})

\* after the callback: stdin still flows, and a chunk with no listener is lost
Dropped ==
    /\ pc = "idle"
    /\ listeners = 0
    /\ Reads + Unheard < MaxInputs
    /\ io' = io \o <<Line("unheard", <<>>)>>
    /\ UNCHANGED <<args, pc, exitCode, moves, rulesMatrix, key, computerMove, hmac, listeners, call>>

Next == Main \/ Help \/ Exit \/ Select \/ Invalid \/ Dropped

Spec == Init /\ [][Next]_vars

\* the rounds of the short command lines and of one list of each length
InitRound ==
    /\ Init
    /\ args \in {l \in ArgLists : Len(l) <= 3} \cup {SubSeq(MoveNames, 1, n) : n \in 0..MaxArgs}

SpecRound == InitRound /\ [][Next]_vars

\* one list of each length; the script runs, and the user in the end types '0'
\* or a number in range
InitLive ==
    /\ Init
    /\ args \in {SubSeq(MoveNames, 1, n) : n \in 0..MaxArgs}

SpecLive == InitLive /\ [][Next]_vars /\ WF_vars(Main) /\ WF_vars(Exit \/ Select)

-----------------------------------------------------------------------------
(* GameRules on its own: new GameRules(moves), then determineResult calls *)

Canonical(n) == SubSeq(MoveNames, 1, n)

\* the lists the rules are built over: every short list, every list the
\* program accepts, and the canonical list of each length
RulesLists ==
    {l \in ArgLists : Len(l) <= 3 \/ ~validateArguments(l)}
    \cup {Canonical(n) : n \in 0..MaxMoves}

InitRules ==
    /\ args \in RulesLists
    /\ pc = "new"
    /\ exitCode = -1
    /\ moves = <<>>
    /\ rulesMatrix = <<>>
    /\ key = <<>>
    /\ computerMove = <<>>
    /\ hmac = <<>>
    /\ listeners = 0
    /\ io = <<>>
    /\ call = <<>>

\* constructor(moves)
NewGameRules ==
    /\ pc = "new"
    /\ moves' = args
    /\ rulesMatrix' = generateRulesMatrix(args)
    /\ pc' = "built"
    /\ UNCHANGED <<args, exitCode, key, computerMove, hmac, listeners, io, call>>

\* determineResult(playerMove, computerMove) with any two strings
Resolve ==
    /\ pc = "built"
    /\ \E a \in AllNames, b \in AllNames :
        call' = <<a, b, determineResult(moves, rulesMatrix, a, b)>>
    /\ UNCHANGED <<args, pc, exitCode, moves, rulesMatrix, key, computerMove, hmac, listeners, io>>

NextRules == NewGameRules \/ Resolve

SpecRules == InitRules /\ [][NextRules]_vars

-----------------------------------------------------------------------------
(* Properties *)

\* the positions of the lines of a kind in the transcript
Lines(kind) == {p \in DOMAIN io : io[p].kind = kind}

Elems(ms) == {ms[i] : i \in 1..Len(ms)}

\* a move list the specification calls misconfigured
BadList(l) ==
    \/ Len(l) < 3
    \/ Len(l) % 2 = 0
    \/ \E i, j \in 1..Len(l) : i < j /\ l[i] = l[j]

RECURSIVE fromHex(_)
\* Buffer.from(text, 'hex'), as a verifier reads the printed key back
fromHex(text) ==
    IF Len(text) < 2 THEN <<>>
    ELSE <<16 * DigitValue(text[1], 16) + DigitValue(text[2], 16)>> \o fromHex(Tail(Tail(text)))

\* the outcome the circular-distance rule gives row index i against column index j
CircularRule(n, i, j) ==
    LET d == (j - i) % n
    IN  IF d = 0 THEN "Draw"
        ELSE IF 2 * d <= n - 1 THEN "Win"
        ELSE "Lose"

\* C1: every data event handled comes after the HMAC line in the transcript, and
\* the computer move given to determineResult is the one that line commits to.
C1_CommitBeforeInput ==
    /\ \A p \in Lines("data") : \E q \in Lines("HMAC") : q < p
    /\ (pc \in {"idle", "threw"}) =>
         /\ call # <<>>
         /\ <<call[2]>> = computerMove
         /\ \E q \in Lines("HMAC") :
              /\ \A p \in Lines("data") : q < p
              /\ io[q].text = calculateHMAC(key, call[2])

\* a round revealed at the second data event, after one re-prompt
C1_Witness ==
    /\ pc = "idle"
    /\ Reads = 2
    /\ Lines("Result") # {}

\* C2: at the reveal, calculateHMAC over the key read back from the 'HMAC key'
\* line and the move of the 'Computer move' line is the HMAC printed at the start.
C2_RoundTrip ==
    \A p \in Lines("HMAC key") :
        \E q \in Lines("HMAC"), c \in Lines("Computer move") :
            /\ q < c
            /\ c < p
            /\ calculateHMAC(fromHex(io[p].text), io[c].text[1]) = io[q].text

\* a reveal whose key has a byte below 16, so that the hex padding matters
C2_Witness ==
    /\ Lines("HMAC key") # {}
    /\ \E i \in 1..Len(key) : key[i] < 16
    /\ Lines("Computer move") # {}

\* C3: until the callback of getUserMove has fired, no line shows the computer's
\* move, the result or the key, whatever was typed before.
C3_NoEarlyReveal ==
    call = <<>> =>
        /\ Lines("Computer move") = {}
        /\ Lines("HMAC key") = {}
        /\ Lines("Result") = {}
        /\ \A p \in DOMAIN io :
             io[p].kind # "HMAC" => (key = <<>> \/ io[p].text # toHex(key))

\* waiting again after a help request and an invalid choice, nothing revealed
C3_Witness ==
    /\ pc = "waiting"
    /\ call = <<>>
    /\ Lines("helpRow") # {}
    /\ Lines("invalid") # {}
    /\ Lines("HMAC") # {}

C5_RowBalance ==
    (pc = "built" /\ ~BadList(moves)) =>
        LET n == Len(moves)
            cells(i, v) == {j \in 1..n : rulesMatrix[i][j] = v}
        IN  /\ \A i \in 1..n :
                 /\ 2 * Cardinality(cells(i, "Win")) = n - 1
                 /\ 2 * Cardinality(cells(i, "Lose")) = n - 1
                 /\ cells(i, "Draw") = {i}
            /\ \A a \in Elems(moves) : determineResult(moves, rulesMatrix, a, a) = "Draw"
            /\ (call # <<>> /\ call[1] = call[2] /\ call[1] \in Elems(moves)) => call[3] = "Draw"

\* a move of a five-move list, not in the canonical order, resolved against itself
C5_Witness ==
    /\ pc = "built"
    /\ Len(moves) = 5
    /\ moves # Canonical(5)
    /\ call # <<>>
    /\ call[1] = call[2]
    /\ call[3] = "Draw"

\* C6: over an odd number n >= 3 of distinct moves, determineResult(a, b) = Win
\* exactly when determineResult(b, a) = Lose, for all configured a and b.
C6_Antisymmetry ==
    (pc = "built" /\ ~BadList(moves)) =>
        \A a, b \in Elems(moves) :
            determineResult(moves, rulesMatrix, a, b) = "Win"
              <=> determineResult(moves, rulesMatrix, b, a) = "Lose"

\* a Win returned for the last move of seven against the first
C6_Witness ==
    /\ pc = "built"
    /\ Len(moves) = 7
    /\ call = <<moves[7], moves[1], "Win">>

\* C7: with moves rock, paper, scissors in that order, rock against scissors is
\* Win, rock against paper is Lose and rock against rock is Draw.
C7_RockBeatsScissors ==
    (moves = <<"rock", "paper", "scissors">> /\ call # <<>> /\ call[1] = "rock") =>
        /\ call[2] = "scissors" => call[3] = "Win"
        /\ call[2] = "paper" => call[3] = "Lose"
        /\ call[2] = "rock" => call[3] = "Draw"

\* C8: once the top level has run, a list that is short, even or has a duplicate
\* has ended the process with the error and nothing built or published, and any
\* other list has its game constructed and started.
C8_ConfigurationChecked ==
    /\ pc = "main" => (rulesMatrix = <<>> /\ key = <<>> /\ Lines("HMAC") = {})
    /\ (pc # "main" /\ BadList(args)) =>
         /\ pc = "exited"
         /\ exitCode = 1
         /\ moves = <<>>
         /\ rulesMatrix = <<>>
         /\ key = <<>>
         /\ hmac = <<>>
         /\ io = errorLines
         /\ listeners = 0
    /\ (pc # "main" /\ ~BadList(args)) =>
         /\ exitCode # 1
         /\ moves = args
         /\ Len(rulesMatrix) = Len(args)
         /\ key \in generateKey
         /\ Lines("HMAC") # {}
         /\ Lines("error") = {}

\* a list of five with one duplicate, rejected
C8_Witness ==
    /\ pc = "exited"
    /\ exitCode = 1
    /\ Len(args) = 5
    /\ Cardinality(Elems(args)) = 4

\* C9: determineResult throws when either argument is no configured move, and
\* returns Win, Lose or Draw when both are.
C9_UnknownMoveThrows ==
    (pc = "built" /\ call # <<>>) =>
        IF call[1] \in Elems(moves) /\ call[2] \in Elems(moves)
        THEN call[3] \in {"Win", "Lose", "Draw"}
        ELSE call[3] = Thrown

\* a configured player move against a string that is no move
C9_Witness ==
    /\ pc = "built"
    /\ Len(moves) = 3
    /\ call # <<>>
    /\ call[1] \in Elems(moves)
    /\ call[2] = Stranger
    /\ call[3] = Thrown

\* the positions of the lines of a kind in a transcript
LinesIn(t, kind) == {p \in DOMAIN t : t[p].kind = kind}

\* the kinds of line that open the commitment or publish one
RevealKinds == {"Your move", "Computer move", "Result", "HMAC key"}

\* the chunk parses, by parseInt, to an integer k with 1 <= k <= n
InRangeNumber(data, ms) ==
    LET k == parseInt(trim(data))
    IN  k # <<>> /\ 1 <= k[1] /\ k[1] <= Len(ms)

\* the chunk is '?', or is neither '0' nor a number in range: the listener prompts again
Reprompts(data, ms) ==
    \/ trim(data) = <<"?">>
    \/ trim(data) # <<"0">> /\ ~InRangeNumber(data, ms)

\* C11: handling '?' or an out-of-range or non-numeric input changes none of the
\* key, the computer's move, the HMAC (the constant and the published line), the
\* move list and the rules matrix, prints no result, and leaves one listener
\* waiting with the same callback.
C11_RepromptFrame ==
    [][\A d \in Inputs :
          (OnData(d) /\ Reprompts(d, moves)) =>
             /\ key' = key
             /\ computerMove' = computerMove
             /\ hmac' = hmac
             /\ moves' = moves
             /\ rulesMatrix' = rulesMatrix
             /\ call' = call
             /\ LinesIn(io', "HMAC") = LinesIn(io, "HMAC")
             /\ \A k \in RevealKinds : LinesIn(io', k) = {}
             /\ SubSeq(io', 1, Len(io)) = io
             /\ pc' = "waiting"
             /\ listeners' = 1]_vars

\* waiting at the third prompt, the one HMAC line still the committed one
C11_Witness ==
    /\ pc = "waiting"
    /\ Reads = 2
    /\ Cardinality(Lines("prompt")) = 3
    /\ \A q \in Lines("HMAC") : io[q].text = calculateHMAC(key, computerMove[1])
    /\ Cardinality(Lines("HMAC")) = 1

\* C12: the callback fires at most once, on the first chunk that parses to an
\* integer k with 1 <= k <= n and with moves[k-1] as its argument; after it no
\* listener is left and a later chunk prints no second result.
C12_RevealOnce ==
    /\ [](/\ Cardinality(Lines("Result")) <= 1
          /\ call # <<>> => listeners = 0)
    /\ [][/\ \A d \in Inputs :
               OnData(d) =>
                  IF InRangeNumber(d, moves)
                  THEN /\ call = <<>>
                       /\ call' # <<>>
                       /\ call'[1] = moves[parseInt(trim(d))[1]]
                       /\ \E p \in LinesIn(io', "Your move") : io'[p].text = <<call'[1]>>
                  ELSE call' = call
          /\ call # <<>> =>
               /\ call' = call
               /\ listeners' = 0
               /\ \A k \in RevealKinds : LinesIn(io', k) = LinesIn(io, k)]_vars

\* a chunk lost after the reveal, one result on the terminal
C12_Witness ==
    /\ pc = "idle"
    /\ Unheard >= 1
    /\ Cardinality(Lines("Result")) = 1
    /\ listeners = 0

\* C13: while the round waits exactly one listener is pending, and when the user
\* in the end types '0' or a number in range the round reaches the exit or the reveal.
C13_Progress ==
    /\ [](pc = "waiting" => listeners = 1)
    /\ (pc = "waiting") ~> (pc \in {"exited", "idle"})

\* waiting with one listener after two prompts were answered
C13_Witness ==
    /\ pc = "waiting"
    /\ listeners = 1
    /\ Reads >= 2
    /\ Lines("helpNote") # {}

\* C14: in the help table the cell in the row labelled with the computer's move c
\* and the column labelled with the user's move u is determineResult(u, c).
C14_HelpAgreesWithGame ==
    \A h \in Lines("helpHeader"), r \in Lines("helpRow") :
        \A j \in 1..Len(moves) :
            LET u == io[h].text[j + 1]
                c == io[r].text[1]
            IN  io[r].text[j + 1] = determineResult(moves, rulesMatrix, u, c)

\* C15: in a started round both arguments of the determineResult call are
\* configured moves, and the round never ends in the 'Invalid move selected' error.
C15_NoUnknownMove ==
    /\ pc # "threw"
    /\ Lines("uncaught") = {}
    /\ call # <<>> =>
         /\ call[1] \in Elems(moves)
         /\ call[2] \in Elems(moves)
         /\ call[3] # Thrown

\* the last of five moves selected and resolved
C15_Witness ==
    /\ pc = "idle"
    /\ Len(moves) = 5
    /\ call # <<>>
    /\ call[1] = moves[5]
    /\ call[3] \in {"Win", "Lose", "Draw"}

\* C16: a '0' handled before any valid move exits the process with nothing of
\* the computer's move, the result or the key printed, then or later: the
\* published HMAC stays unopened.
C16_ExitWithoutReveal ==
    /\ []((pc = "exited" /\ exitCode = 0) =>
            /\ \A k \in RevealKinds : Lines(k) = {}
            /\ Lines("HMAC") # {}
            /\ call = <<>>
            /\ listeners = 0)
    /\ [][/\ \A d \in Inputs :
               (OnData(d) /\ trim(d) = <<"0">>) => (pc' = "exited" /\ exitCode' = 0)
          /\ pc = "exited" => (pc' = "exited" /\ io' = io)]_vars

\* left with '0' after the help and an invalid choice
C16_Witness ==
    /\ pc = "exited"
    /\ exitCode = 0
    /\ Lines("helpNote") # {}
    /\ Lines("invalid") # {}
    /\ Lines("HMAC") # {}

====
